---------------------------- MODULE Spec2Model ----------------------------
(***************************************************************************)
(* A model of the equilibrium/model evaluation layer of IO_economics:      *)
(* AuctionTheory, GameTheory, MarketStructures, PriceCompetition and       *)
(* NetworkEffects.  Every function of the layer is a stateless call: the   *)
(* state below is the caller's view of one call (its arguments, the        *)
(* position inside the function's loop where it has one, and the result    *)
(* record).  Each component has its own specification; the variables of    *)
(* the other components stay at their idle values.                         *)
(*                                                                         *)
(* Real numbers are exact rationals [n |-> numerator, d |-> denominator]   *)
(* in lowest terms with d > 0, except in network_adoption_dynamics, whose  *)
(* 50-step float recurrence is carried in decimal fixed point (see One).   *)
(***************************************************************************)
EXTENDS Integers, Sequences, FiniteSets, TLC

VARIABLES
    pc,                 \* position of the caller: "call", "loop", "done"
    \* AuctionTheory: the function called, its arguments, the locals of the
    \* english_auction and dutch_auction loops, and the result record
    mechanism, valuations, reserve_price, increment, starting_price, decrement,
    active_bidders, current_price, sorted_indices, bidder_pos, auction_result,
    \* GameTheory: the payoff_matrix argument of prisoners_dilemma and of
    \* repeated_game_simulation
    payoff_matrix,
    \* GameTheory.prisoners_dilemma / find_nash_equilibria
    game, payoff_matrix_p1, payoff_matrix_p2, strategies_p1, strategies_p2,
    nash_i, nash_j, equilibria, game_result,
    \* GameTheory.repeated_game_simulation
    n_rounds, strategy_p1, strategy_p2, round_num,
    action_p1, action_p2, history_p1, history_p2, payoffs_p1, payoffs_p2,
    repeated_result,
    \* MarketStructures
    a, b, mc, n_firms, competition_result, monopoly_result, cournot_result,
    monopolistic_result,
    \* PriceCompetition.bertrand_competition
    mc1, mc2, gamma, bertrand_result,
    \* NetworkEffects.network_adoption_dynamics
    adoption_threshold, network_value, time_periods, t, current_adopters,
    adoption_history, adoption_result,
    \* NetworkEffects.platform_competition
    network_strength, platform1_quality, platform2_quality, total_users,
    platform_result,
    \* ProductDifferentiation.vertical_differentiation
    quality_high, quality_low, cost_high, cost_low, vertical_result

auctionVars == <<mechanism, valuations, reserve_price, increment, starting_price,
                 decrement, active_bidders, current_price, sorted_indices, bidder_pos,
                 auction_result>>
nashVars == <<game, payoff_matrix_p1, payoff_matrix_p2, strategies_p1, strategies_p2,
              nash_i, nash_j, equilibria, game_result>>
repeatedVars == <<n_rounds, strategy_p1, strategy_p2, round_num,
                  action_p1, action_p2, history_p1, history_p2, payoffs_p1, payoffs_p2,
                  repeated_result>>
marketVars == <<a, b, mc, n_firms, competition_result, monopoly_result, cournot_result,
                monopolistic_result>>
bertrandVars == <<mc1, mc2, gamma, bertrand_result>>
adoptionVars == <<adoption_threshold, network_value, time_periods, t,
                  current_adopters, adoption_history, adoption_result>>
platformVars == <<network_strength, platform1_quality, platform2_quality, total_users,
                  platform_result>>
verticalVars == <<quality_high, quality_low, cost_high, cost_low, vertical_result>>
vars == <<pc, payoff_matrix, auctionVars, nashVars, repeatedVars, marketVars, bertrandVars,
          adoptionVars, platformVars, verticalVars>>

\* Python's None where a string is expected (no call in progress).
None == "None"
\* A result variable before the call has returned.
NoResult == [pending |-> TRUE]
\* 'winner': None in a result record, whose winners are 0-based indices.
NoWinner == -1
\* Python raises ZeroDivisionError on a division by zero: the call returns no
\* record.
ZeroDivisionError == [error |-> "ZeroDivisionError"]

(***************************************************************************)
(* Exact rational arithmetic                                               *)
(***************************************************************************)
Abs(x) == IF x < 0 THEN -x ELSE x

RECURSIVE Gcd(_, _)
Gcd(x, y) == IF y = 0 THEN x ELSE Gcd(y, x % y)

Rat(num, den) ==
    LET s == IF den < 0 THEN -1 ELSE 1
        g == Gcd(Abs(num), Abs(den))
    IN  [n |-> (s * num) \div g, d |-> (s * den) \div g]

R(i) == [n |-> i, d |-> 1]
\* Common factors are cancelled before multiplying, to stay within 32 bits.
RAdd(x, y) ==
    LET g == Gcd(x.d, y.d)
    IN  Rat(x.n * (y.d \div g) + y.n * (x.d \div g), (x.d \div g) * y.d)
RNeg(x) == [n |-> -x.n, d |-> x.d]
RSub(x, y) == RAdd(x, RNeg(y))
RMul(x, y) ==
    LET g1 == Gcd(Abs(x.n), y.d)
        g2 == Gcd(Abs(y.n), x.d)
    IN  Rat((x.n \div g1) * (y.n \div g2), (x.d \div g2) * (y.d \div g1))
\* The divisor is non-zero wherever the model divides.
RDiv(x, y) == RMul(x, Rat(y.d, y.n))
RLt(x, y) ==
    LET g == Gcd(x.d, y.d)
    IN  x.n * (y.d \div g) < y.n * (x.d \div g)
RLe(x, y) ==
    LET g == Gcd(x.d, y.d)
    IN  x.n * (y.d \div g) <= y.n * (x.d \div g)
RHalf == Rat(1, 2)

(***************************************************************************)
(* Idle values: a component whose specification is not the one being run.  *)
(***************************************************************************)
AuctionLocalsIdle ==
    active_bidders = <<>> /\ current_price = 0 /\ sorted_indices = <<>> /\ bidder_pos = 0
AuctionIdle ==
    /\ mechanism = None /\ valuations = <<>> /\ reserve_price = 0
    /\ increment = 0 /\ starting_price = 0 /\ decrement = 0
    /\ AuctionLocalsIdle /\ auction_result = NoResult
NashIdle ==
    /\ game = None /\ payoff_matrix_p1 = <<>> /\ payoff_matrix_p2 = <<>>
    /\ strategies_p1 = <<>> /\ strategies_p2 = <<>>
    /\ nash_i = 0 /\ nash_j = 0 /\ equilibria = <<>> /\ game_result = NoResult
RepeatedIdle ==
    /\ n_rounds = 0
    /\ strategy_p1 = None /\ strategy_p2 = None /\ round_num = 0
    /\ action_p1 = 0 /\ action_p2 = 0 /\ history_p1 = <<>> /\ history_p2 = <<>>
    /\ payoffs_p1 = <<>> /\ payoffs_p2 = <<>> /\ repeated_result = NoResult
MarketIdle ==
    /\ a = 0 /\ b = 0 /\ mc = 0 /\ n_firms = 0
    /\ competition_result = NoResult /\ monopoly_result = NoResult /\ cournot_result = NoResult
    /\ monopolistic_result = NoResult
BertrandIdle == mc1 = 0 /\ mc2 = 0 /\ gamma = R(0) /\ bertrand_result = NoResult
AdoptionIdle ==
    /\ adoption_threshold = 0 /\ network_value = 0 /\ time_periods = 0 /\ t = 0
    /\ current_adopters = <<>> /\ adoption_history = <<>> /\ adoption_result = NoResult
PlatformIdle ==
    /\ network_strength = R(0) /\ platform1_quality = 0 /\ platform2_quality = 0
    /\ total_users = 0 /\ platform_result = NoResult
VerticalIdle ==
    /\ quality_high = 0 /\ quality_low = 0 /\ cost_high = 0 /\ cost_low = 0
    /\ vertical_result = NoResult

(***************************************************************************)
(* AuctionTheory.second_price_sealed_bid                                   *)
(***************************************************************************)
MaxBidders == 3
MaxVal == 3
MaxReserve == 4

\* np.where(bids >= reserve_price)[0]: the qualifying indices, ascending
\* (1-based here, 0-based in the result record).
FeasibleBidders(bids, reserve) ==
    SelectSeq([k \in 1..Len(bids) |-> k], LAMBDA k : bids[k] >= reserve)

\* np.argmax: the first position holding the maximum.
ArgMaxFirstIndex(s) == 1
ArgMax(s) ==
    CHOOSE k \in 1..Len(s) :
        /\ \A m \in 1..Len(s) : s[m] <= s[k]
        /\ \A m \in 1..(k - 1) : s[m] < s[k]

\* The k-th smallest element, as np.partition(s, k) leaves it at position k.
RECURSIVE Insert(_, _)
Insert(x, s) ==
    IF s = <<>> THEN <<x>>
    ELSE IF x <= Head(s) THEN <<x>> \o s
    ELSE <<Head(s)>> \o Insert(x, Tail(s))
RECURSIVE SortAsc(_)
SortAsc(s) == IF s = <<>> THEN <<>> ELSE Insert(Head(s), SortAsc(Tail(s)))
SecondHighestAsHighest(s) == SortAsc(s)[Len(s)]
SecondHighest(s) == SortAsc(s)[Len(s) - 1]

MaxOf(x, y) == IF x >= y THEN x ELSE y

\* payment = second highest feasible bid (reserve if only one), floored at reserve
PaymentSum(feasible_bids, reserve) ==
    IF Len(feasible_bids) > 1 THEN SecondHighest(feasible_bids) + reserve ELSE reserve
SecondPricePayment(feasible_bids, reserve) ==
    LET payment == IF Len(feasible_bids) > 1 THEN SecondHighest(feasible_bids)
                   ELSE reserve
    IN  MaxOf(payment, reserve)

second_price_sealed_bid(vals, reserve) ==
    LET bids == vals
        feasible_bidders == FeasibleBidders(bids, reserve)
    IN  IF Len(feasible_bidders) = 0
        THEN [winner |-> NoWinner, winning_bid |-> 0, revenue |-> 0,
              winner_surplus |-> 0, efficiency |-> 0, bids |-> bids,
              auction_type |-> "Second-Price Sealed-Bid"]
        ELSE LET feasible_bids == [k \in 1..Len(feasible_bidders) |-> bids[feasible_bidders[k]]]
                 winner_idx == feasible_bidders[ArgMax(feasible_bids)]
                 payment == SecondPricePayment(feasible_bids, reserve)
             IN  [winner |-> winner_idx - 1, winning_bid |-> vals[winner_idx],
                  payment |-> payment, revenue |-> payment,
                  winner_surplus |-> vals[winner_idx] - payment,
                  efficiency |-> 1, bids |-> bids, valuations |-> vals,
                  auction_type |-> "Second-Price Sealed-Bid"]

(***************************************************************************)
(* AuctionTheory.first_price_sealed_bid                                    *)
(***************************************************************************)
\* np.argmax over fractional bids: the first position holding the maximum.
ArgMaxR(s) ==
    CHOOSE k \in 1..Len(s) :
        /\ \A m \in 1..Len(s) : RLe(s[m], s[k])
        /\ \A m \in 1..(k - 1) : RLt(s[m], s[k])

\* equilibrium_bids = (n_bidders - 1) / n_bidders * valuations; with no
\* bidder the ratio divides by zero.
TruthfulBids(vals) == [k \in 1..Len(vals) |-> R(vals[k])]
EquilibriumBids(vals) ==
    IF Len(vals) = 0 THEN ZeroDivisionError
    ELSE [k \in 1..Len(vals) |-> RMul(Rat(Len(vals) - 1, Len(vals)), R(vals[k]))]

\* np.where(equilibrium_bids >= reserve_price)[0]
FeasibleBiddersR(bids, reserve) ==
    SelectSeq([k \in 1..Len(bids) |-> k], LAMBDA k : RLe(R(reserve), bids[k]))

first_price_sealed_bid(vals, reserve) ==
    IF Len(vals) = 0 THEN EquilibriumBids(vals) ELSE
    LET equilibrium_bids == EquilibriumBids(vals)
        feasible_bidders == FeasibleBiddersR(equilibrium_bids, reserve)
    IN  IF Len(feasible_bidders) = 0
        THEN [winner |-> NoWinner, winning_bid |-> 0, revenue |-> 0,
              winner_surplus |-> 0, efficiency |-> 0, bids |-> equilibrium_bids,
              auction_type |-> "First-Price Sealed-Bid"]
        ELSE LET feasible_bids ==
                     [k \in 1..Len(feasible_bidders) |-> equilibrium_bids[feasible_bidders[k]]]
                 winner_idx == feasible_bidders[ArgMaxR(feasible_bids)]
                 winning_bid == feasible_bids[ArgMaxR(feasible_bids)]
             IN  [winner |-> winner_idx - 1, winning_bid |-> winning_bid,
                  revenue |-> winning_bid,
                  winner_surplus |-> RSub(R(vals[winner_idx]), winning_bid),
                  efficiency |-> IF winner_idx = ArgMax(vals) THEN 1 ELSE 0,
                  bids |-> equilibrium_bids, valuations |-> vals,
                  auction_type |-> "First-Price Sealed-Bid"]

(***************************************************************************)
(* AuctionTheory.english_auction                                           *)
(***************************************************************************)
MaxStep == 2

\* The 'no winner' record of english_auction and dutch_auction.
NoWinnerResult(final_price, type) ==
    [winner |-> NoWinner, winning_bid |-> 0, revenue |-> 0, winner_surplus |-> 0,
     efficiency |-> 0, final_price |-> final_price, auction_type |-> type]

\* current_price += increment
RaisePriceStuck(price, inc) == price
RaisePrice(price, inc) == price + inc

\* active_bidders[valuations[active_bidders] >= current_price + increment]
StillActive(vals, active, price, inc) ==
    SelectSeq(active, LAMBDA k : vals[k] >= price + inc)

\* payment = second highest valuation at or above the reserve + increment
\* (the reserve if only one valuation qualifies)
EnglishPayment(vals, reserve, inc) ==
    LET qualifying == FeasibleBidders(vals, reserve)
        sorted_valuations == SortAsc([k \in 1..Len(qualifying) |-> vals[qualifying[k]]])
    IN  IF Len(sorted_valuations) > 1
        THEN sorted_valuations[Len(sorted_valuations) - 1] + inc
        ELSE reserve

EnglishResult(vals, reserve, inc, active, price) ==
    IF Len(active) = 0
    THEN NoWinnerResult(price, "English Auction")
    ELSE LET winner_idx == active[1]
             payment == EnglishPayment(vals, reserve, inc)
         IN  [winner |-> winner_idx - 1, winning_bid |-> vals[winner_idx],
              payment |-> payment, revenue |-> payment,
              winner_surplus |-> vals[winner_idx] - payment,
              efficiency |-> 1, final_price |-> payment, valuations |-> vals,
              auction_type |-> "English Auction"]

(***************************************************************************)
(* AuctionTheory.dutch_auction                                             *)
(***************************************************************************)
MaxStart == 5

\* np.argsort(valuations)[::-1]: the bidders by descending valuation.  The
\* order of equal valuations is left open by the sort.
DescendingOrders(vals) ==
    {p \in [1..Len(vals) -> 1..Len(vals)] :
        /\ \A i, j \in 1..Len(vals) : i # j => p[i] # p[j]
        /\ \A i \in 1..(Len(vals) - 1) : vals[p[i]] >= vals[p[i + 1]]}

\* current_price <= valuations[bidder_idx]
AcceptsAbove(price, valuation) == price >= valuation
Accepts(price, valuation) == price <= valuation

DutchWin(vals, winner_idx, winning_price) ==
    [winner |-> winner_idx - 1, winning_bid |-> winning_price,
     revenue |-> winning_price,
     winner_surplus |-> vals[winner_idx] - winning_price,
     efficiency |-> IF winner_idx = ArgMax(vals) THEN 1 ELSE 0,
     final_price |-> winning_price, valuations |-> vals,
     auction_type |-> "Dutch Auction"]

\* Any list of valuations, the empty one included.
ValuationVectors == UNION {[1..k -> 0..MaxVal] : k \in 0..MaxBidders}

AuctionInit ==
    /\ pc = "call"
    /\ valuations \in ValuationVectors
    /\ \/ /\ mechanism \in {"first_price_sealed_bid", "second_price_sealed_bid"}
          /\ reserve_price \in 0..MaxReserve
          /\ increment = 0 /\ starting_price = 0 /\ decrement = 0
       \/ /\ mechanism = "english_auction"
          /\ reserve_price \in 0..MaxReserve
          /\ increment \in 1..MaxStep
          /\ starting_price = 0 /\ decrement = 0
       \/ /\ mechanism = "dutch_auction"
          /\ starting_price \in 0..MaxStart
          /\ decrement \in 1..MaxStep
          /\ reserve_price = 0 /\ increment = 0
    /\ AuctionLocalsIdle
    /\ auction_result = NoResult
    /\ payoff_matrix = <<>> /\ NashIdle /\ RepeatedIdle /\ MarketIdle /\ BertrandIdle /\ AdoptionIdle
    /\ PlatformIdle
    /\ VerticalIdle

auctionArgs == <<mechanism, valuations, reserve_price, increment, starting_price, decrement>>
auctionLocals == <<active_bidders, current_price, sorted_indices, bidder_pos>>
notAuction == <<payoff_matrix, nashVars, repeatedVars, marketVars, bertrandVars,
                adoptionVars, platformVars, verticalVars>>

FirstPriceSealedBid ==
    /\ pc = "call" /\ mechanism = "first_price_sealed_bid"
    /\ auction_result' = first_price_sealed_bid(valuations, reserve_price)
    /\ pc' = "done"
    /\ UNCHANGED <<auctionArgs, auctionLocals, notAuction>>

SecondPriceSealedBid ==
    /\ pc = "call" /\ mechanism = "second_price_sealed_bid"
    /\ auction_result' = second_price_sealed_bid(valuations, reserve_price)
    /\ pc' = "done"
    /\ UNCHANGED <<auctionArgs, auctionLocals, notAuction>>

\* english_auction up to the loop: the early 'no winner' return, or the
\* opening price.
EnglishAuction ==
    /\ pc = "call" /\ mechanism = "english_auction"
    /\ active_bidders' = FeasibleBidders(valuations, reserve_price)
    /\ IF Len(active_bidders') = 0
       THEN /\ auction_result' = NoWinnerResult(reserve_price, "English Auction")
            /\ pc' = "done"
            /\ UNCHANGED current_price
       ELSE /\ current_price' = reserve_price
            /\ pc' = "english"
            /\ UNCHANGED auction_result
    /\ UNCHANGED <<auctionArgs, sorted_indices, bidder_pos, notAuction>>

\* One pass of "while len(active_bidders) > 1".
EnglishStep ==
    /\ pc = "english" /\ Len(active_bidders) > 1
    /\ active_bidders' = StillActive(valuations, active_bidders, current_price, increment)
    /\ current_price' = RaisePrice(current_price, increment)
    /\ UNCHANGED <<pc, auctionArgs, sorted_indices, bidder_pos, auction_result, notAuction>>

EnglishReturn ==
    /\ pc = "english" /\ Len(active_bidders) <= 1
    /\ auction_result' =
         EnglishResult(valuations, reserve_price, increment, active_bidders, current_price)
    /\ pc' = "done"
    /\ UNCHANGED <<auctionArgs, auctionLocals, notAuction>>

DutchAuction ==
    /\ pc = "call" /\ mechanism = "dutch_auction"
    /\ current_price' = starting_price
    /\ sorted_indices' \in DescendingOrders(valuations)
    /\ bidder_pos' = 1
    /\ pc' = "dutch"
    /\ UNCHANGED <<auctionArgs, active_bidders, auction_result, notAuction>>

\* One pass of "for bidder_idx in sorted_indices".
DutchStep ==
    /\ pc = "dutch" /\ bidder_pos <= Len(sorted_indices)
    /\ IF Accepts(current_price, valuations[sorted_indices[bidder_pos]])
       THEN /\ auction_result' =
                 DutchWin(valuations, sorted_indices[bidder_pos], current_price)
            /\ pc' = "done"
            /\ UNCHANGED <<current_price, bidder_pos>>
       ELSE /\ current_price' = current_price - decrement
            /\ bidder_pos' = bidder_pos + 1
            /\ UNCHANGED <<pc, auction_result>>
    /\ UNCHANGED <<auctionArgs, active_bidders, sorted_indices, notAuction>>

\* No one bid.
DutchReturn ==
    /\ pc = "dutch" /\ bidder_pos > Len(sorted_indices)
    /\ auction_result' = NoWinnerResult(current_price, "Dutch Auction")
    /\ pc' = "done"
    /\ UNCHANGED <<auctionArgs, auctionLocals, notAuction>>

AuctionNext ==
    \/ FirstPriceSealedBid \/ SecondPriceSealedBid
    \/ EnglishAuction \/ EnglishStep \/ EnglishReturn
    \/ DutchAuction \/ DutchStep \/ DutchReturn
SpecAuction == AuctionInit /\ [][AuctionNext]_vars

\* english_auction alone.  A call that has started runs on: nothing suspends
\* or cancels it.
EnglishInit == AuctionInit /\ mechanism = "english_auction"
EnglishNext == EnglishAuction \/ EnglishStep \/ EnglishReturn
SpecEnglish == EnglishInit /\ [][EnglishNext]_vars /\ WF_vars(EnglishNext)

MaxSeq(s) == CHOOSE x \in {s[k] : k \in 1..Len(s)} : \A k \in 1..Len(s) : s[k] <= x
Returned1(m) == pc = "done" /\ mechanism = m
HasWinner == Returned1("second_price_sealed_bid") /\ auction_result.winner # NoWinner

\* C1: whenever second_price_sealed_bid returns a winner, the reported
\* efficiency is 1 and the winner holds the highest valuation of all bidders.
C1_EfficientWinner ==
    HasWinner =>
        /\ auction_result.efficiency = 1
        /\ valuations[auction_result.winner + 1] = MaxSeq(valuations)
\* A winner that is not the first bidder, with a losing bidder below the reserve.
C1_Witness ==
    /\ HasWinner
    /\ auction_result.winner > 0
    /\ \E k \in 1..Len(valuations) : valuations[k] < reserve_price
    /\ \E k \in 1..Len(valuations) : valuations[k] < valuations[auction_result.winner + 1]

\* C2: whenever second_price_sealed_bid returns a winner, the payment (revenue)
\* is at most the winner's valuation: winner_surplus >= 0.
C2_IndividuallyRational ==
    HasWinner =>
        /\ auction_result.revenue <= valuations[auction_result.winner + 1]
        /\ auction_result.winner_surplus >= 0
\* Two qualifying bidders, a positive reserve, and a payment above the reserve.
C2_Witness ==
    /\ HasWinner
    /\ reserve_price > 0
    /\ Len(FeasibleBidders(valuations, reserve_price)) >= 2
    /\ auction_result.revenue > reserve_price
    /\ auction_result.winner_surplus > 0

(***************************************************************************)
(* Properties of english_auction                                           *)
(***************************************************************************)
Qualifies(k) == valuations[k] >= reserve_price
SomeoneQualifies == \E k \in 1..Len(valuations) : Qualifies(k)

\* C11: whenever some valuation is at least the reserve, english_auction
\* awards the item to a bidder with the highest valuation and reports
\* efficiency 1.
C11_EnglishAwardsHighest ==
    (Returned1("english_auction") /\ SomeoneQualifies) =>
        /\ auction_result.winner # NoWinner
        /\ valuations[auction_result.winner + 1] = MaxSeq(valuations)
        /\ auction_result.efficiency = 1

\* The loop as the claim describes it: a pass raises the price by one
\* increment and keeps exactly the active bidders whose valuation is at least
\* the new price; the loop runs only while two or more bidders are active.
C12_PassRaisesPrice ==
    (pc = "english" /\ pc' = "english") =>
        /\ Len(active_bidders) > 1
        /\ current_price' = current_price + increment
        /\ active_bidders' =
             SelectSeq(active_bidders, LAMBDA k : valuations[k] >= current_price')
C12_StopsAtOneBidder ==
    (pc = "english" /\ Len(active_bidders) <= 1) => pc' = "done"

\* C12: with increment > 0 every call of english_auction returns, and its
\* loop raises the price by one increment per pass, drops the bidders whose
\* valuation is below the next price and stops once at most one bidder is
\* active.
C12_EnglishTerminates ==
    /\ [][C12_PassRaisesPrice]_vars
    /\ [][C12_StopsAtOneBidder]_vars
    /\ (mechanism = "english_auction") ~> (pc = "done")
\* A call that returned after at least two passes of the loop.
C12_Witness ==
    /\ Returned1("english_auction")
    /\ increment > 0
    /\ current_price >= reserve_price + 2 * increment

(***************************************************************************)
(* Properties of first_price_sealed_bid                                    *)
(***************************************************************************)
\* x >= y, x = y and x + y = v for fractions with positive denominators
AtLeast(x, y) == x.n * y.d >= y.n * x.d
SameValue(x, y) == x.n * y.d = y.n * x.d
AddsUpTo(x, y, v) == x.n * y.d + y.n * x.d = v * x.d * y.d

BidClears(bids, k) == AtLeast(bids[k], R(reserve_price))

\* C13: with n >= 1 bidders every bid is (n-1)/n of the valuation; the winner
\* holds the highest bid among the bids at or above the reserve; winning_bid
\* and revenue are the winner's own bid; winner_surplus is the winner's
\* valuation minus that bid.
C13_FirstPriceOutcome ==
    (Returned1("first_price_sealed_bid") /\ Len(valuations) >= 1) =>
        LET n == Len(valuations)
            bids == auction_result.bids
            w == auction_result.winner + 1
        IN  /\ Len(bids) = n
            /\ \A k \in 1..n : bids[k].n * n = (n - 1) * valuations[k] * bids[k].d
            /\ (\E k \in 1..n : BidClears(bids, k)) =>
                 /\ auction_result.winner # NoWinner
                 /\ BidClears(bids, w)
                 /\ \A k \in 1..n : BidClears(bids, k) => AtLeast(bids[w], bids[k])
                 /\ SameValue(auction_result.winning_bid, bids[w])
                 /\ SameValue(auction_result.revenue, bids[w])
                 /\ AddsUpTo(auction_result.winner_surplus, bids[w], valuations[w])
\* Several bidders, a positive reserve that a shaded bid still clears, and a
\* winner who keeps a positive surplus.
C13_Witness ==
    /\ Returned1("first_price_sealed_bid")
    /\ Len(valuations) >= 2
    /\ reserve_price > 0
    /\ auction_result.winner # NoWinner
    /\ auction_result.winning_bid.d > 1
    /\ auction_result.winner_surplus.n > 0

(***************************************************************************)
(* Properties of second_price_sealed_bid                                   *)
(***************************************************************************)
Qualifiers == {k \in 1..Len(valuations) : Qualifies(k)}

\* v is the second-highest of the qualifying bids: some qualifier bids at
\* least as much as every other one, and v is the highest bid of the rest.
IsSecondHighestBid(bids, v) ==
    \E top \in Qualifiers :
        /\ \A k \in Qualifiers : bids[top] >= bids[k]
        /\ \E second \in Qualifiers \ {top} :
               /\ bids[second] = v
               /\ \A k \in Qualifiers \ {top} : v >= bids[k]

\* C14: every bid equals the bidder's valuation; with two or more bids at or
\* above the reserve the payment (revenue) is the second-highest of them, and
\* with exactly one it is the reserve.
C14_SecondPricePayment ==
    Returned1("second_price_sealed_bid") =>
        /\ auction_result.bids = valuations
        /\ Cardinality(Qualifiers) >= 2 =>
             /\ IsSecondHighestBid(auction_result.bids, auction_result.payment)
             /\ auction_result.revenue = auction_result.payment
        /\ Cardinality(Qualifiers) = 1 =>
             /\ auction_result.payment = reserve_price
             /\ auction_result.revenue = reserve_price
\* Three qualifying bids of which the second-highest lies strictly between
\* the other two.
C14_Witness ==
    /\ Returned1("second_price_sealed_bid")
    /\ Cardinality(Qualifiers) >= 3
    /\ auction_result.payment < auction_result.winning_bid
    /\ \E k \in Qualifiers : valuations[k] < auction_result.payment

(***************************************************************************)
(* Properties of dutch_auction                                             *)
(***************************************************************************)
\* The price called when the bidder at position i of the order is asked.
PriceAt(i) == starting_price - (i - 1) * decrement

C15_PriceDescends ==
    (pc = "dutch" /\ pc' = "dutch") =>
        /\ current_price' = current_price - decrement
        /\ bidder_pos' = bidder_pos + 1
C15_WinnerIsFirstToAccept ==
    (Returned1("dutch_auction") /\ auction_result.winner # NoWinner) =>
        LET w == auction_result.winner + 1
            price == auction_result.winning_bid
        IN  /\ \A i \in 1..(Len(sorted_indices) - 1) :
                   valuations[sorted_indices[i]] >= valuations[sorted_indices[i + 1]]
            /\ sorted_indices[bidder_pos] = w
            /\ price = PriceAt(bidder_pos)
            /\ valuations[w] >= price
            /\ \A i \in 1..(bidder_pos - 1) : valuations[sorted_indices[i]] < PriceAt(i)
            /\ auction_result.revenue = price
            /\ auction_result.final_price = price
            /\ auction_result.winner_surplus = valuations[w] - price
            /\ auction_result.winner_surplus >= 0

\* C15: dutch_auction asks the bidders in descending order of valuation
\* while the price falls by decrement from starting_price; the first bidder
\* whose valuation is at least the price then called wins; winning_bid,
\* revenue and final_price are that price and the surplus, valuation minus
\* price, is not negative.
C15_DutchOutcome ==
    /\ [][C15_PriceDescends]_vars
    /\ [](C15_WinnerIsFirstToAccept)
\* The price fell at least once before a bidder accepted, below that
\* bidder's valuation.
C15_Witness ==
    /\ Returned1("dutch_auction")
    /\ auction_result.winner # NoWinner
    /\ bidder_pos >= 2
    /\ auction_result.final_price < starting_price
    /\ auction_result.winner_surplus > 0

(***************************************************************************)
(* The 'no winner' result                                                  *)
(***************************************************************************)
NoBidClears ==
    \/ /\ mechanism = "first_price_sealed_bid"
       /\ \A k \in 1..Len(valuations) : ~BidClears(auction_result.bids, k)
    \/ /\ mechanism \in {"second_price_sealed_bid", "english_auction"}
       /\ ~SomeoneQualifies

\* The call raised instead of returning a result record.
Failed(r) == "error" \in DOMAIN r

\* C16: when no bidder clears the reserve, first_price_sealed_bid,
\* second_price_sealed_bid and english_auction do not fail: they return with
\* winner None and winning_bid, revenue, winner_surplus and efficiency all 0.
C16_NoWinnerResult ==
    (pc = "done" /\ NoBidClears) =>
        /\ ~Failed(auction_result)
        /\ auction_result.winner = NoWinner
        /\ auction_result.winning_bid = 0
        /\ auction_result.revenue = 0
        /\ auction_result.winner_surplus = 0
        /\ auction_result.efficiency = 0

\* C25: given a non-empty list with a positive valuation (none negative), any
\* starting_price and any decrement > 0, dutch_auction keeps lowering the
\* price until a bidder accepts: it returns a winner.
C25_DutchAlwaysSells ==
    (/\ Returned1("dutch_auction")
     /\ decrement > 0
     /\ Len(valuations) > 0
     /\ \A k \in 1..Len(valuations) : valuations[k] >= 0
     /\ MaxSeq(valuations) > 0)
        => auction_result.winner # NoWinner

\* C26: when english_auction returns a winner (increment > 0), the payment
\* is at most the winner's valuation and winner_surplus is not negative.
C26_EnglishIndividuallyRational ==
    (/\ Returned1("english_auction")
     /\ increment > 0
     /\ auction_result.winner # NoWinner)
        => /\ auction_result.payment <= valuations[auction_result.winner + 1]
           /\ auction_result.winner_surplus >= 0

(***************************************************************************)
(* GameTheory.find_nash_equilibria, prisoners_dilemma                      *)
(***************************************************************************)
\* Every caller passes two strategies per player.
NStrategies == 2
MaxPayoff == 2
MaxPDPayoff == 5

Matrices(maxp) == [1..NStrategies -> [1..NStrategies -> 0..maxp]]

\* The deviation test of both players: a strictly greater payoff.
ImprovesOrTies(other, current) == other >= current
Improves(other, current) == other > current

\* for k in range(n_strategies_p1): if payoff_matrix_p1[k][j] > current: break
RECURSIVE Player1Stays(_, _, _, _)
Player1Stays(p1, current, j, k) ==
    IF k > Len(p1) THEN TRUE
    ELSE IF Improves(p1[k][j], current) THEN FALSE
    ELSE Player1Stays(p1, current, j, k + 1)

\* for l in range(n_strategies_p2): if payoff_matrix_p2[i][l] > current: break
RECURSIVE Player2Stays(_, _, _, _)
Player2Stays(p2, current, i, l) ==
    IF l > Len(p2[i]) THEN TRUE
    ELSE IF Improves(p2[i][l], current) THEN FALSE
    ELSE Player2Stays(p2, current, i, l + 1)

\* The body of the double loop for cell (i, j), 1-based.
IsNash(p1, p2, i, j) ==
    IF Player1Stays(p1, p1[i][j], j, 1)
    THEN Player2Stays(p2, p2[i][j], i, 1)
    ELSE FALSE

\* all(...) over a generator: strict dominance of one row or column.
find_dominant_strategy(m, player) ==
    IF player = "row"
    THEN IF \A j \in 1..Len(m[1]) : m[1][j] > m[2][j] THEN "Strategy 1 dominates"
         ELSE IF \A j \in 1..Len(m[1]) : m[2][j] > m[1][j] THEN "Strategy 2 dominates"
         ELSE "No dominant strategy"
    ELSE IF \A i \in 1..Len(m) : m[i][1] > m[i][2] THEN "Strategy 1 dominates"
         ELSE IF \A i \in 1..Len(m) : m[i][2] > m[i][1] THEN "Strategy 2 dominates"
         ELSE "No dominant strategy"

PDStrategies == <<"Cooperate", "Defect">>
EntryStrategies == <<"Enter", "Stay Out">>

GameInit ==
    /\ pc = "call"
    /\ \/ /\ game = "prisoners_dilemma"
          /\ payoff_matrix \in Matrices(MaxPDPayoff)
          /\ payoff_matrix_p1 = <<>> /\ payoff_matrix_p2 = <<>>
          /\ strategies_p1 = <<>> /\ strategies_p2 = <<>>
       \/ /\ game = "find_nash_equilibria"
          /\ payoff_matrix = <<>>
          /\ payoff_matrix_p1 \in Matrices(MaxPayoff)
          /\ payoff_matrix_p2 \in Matrices(MaxPayoff)
          /\ strategies_p1 = EntryStrategies /\ strategies_p2 = EntryStrategies
    /\ nash_i = 0 /\ nash_j = 0 /\ equilibria = <<>> /\ game_result = NoResult
    /\ AuctionIdle /\ RepeatedIdle /\ MarketIdle /\ BertrandIdle /\ AdoptionIdle
    /\ PlatformIdle
    /\ VerticalIdle

notGame == <<auctionVars, repeatedVars, marketVars, bertrandVars, adoptionVars, platformVars, verticalVars>>

\* prisoners_dilemma hands its one matrix to find_nash_equilibria for both players.
PrisonersDilemma ==
    /\ pc = "call" /\ game = "prisoners_dilemma"
    /\ payoff_matrix_p1' = payoff_matrix
    /\ payoff_matrix_p2' = payoff_matrix
    /\ strategies_p1' = PDStrategies /\ strategies_p2' = PDStrategies
    /\ equilibria' = <<>> /\ nash_i' = 0 /\ nash_j' = 0
    /\ pc' = "loop"
    /\ UNCHANGED <<payoff_matrix, game, game_result, notGame>>

FindNashEquilibria ==
    /\ pc = "call" /\ game = "find_nash_equilibria"
    /\ equilibria' = <<>> /\ nash_i' = 0 /\ nash_j' = 0
    /\ pc' = "loop"
    /\ UNCHANGED <<payoff_matrix, game, payoff_matrix_p1, payoff_matrix_p2,
                   strategies_p1, strategies_p2, game_result, notGame>>

\* One pass of the inner loop body: cell (nash_i, nash_j), 0-based as in the code.
CheckCell ==
    /\ pc = "loop" /\ nash_i < Len(strategies_p1)
    /\ equilibria' =
         IF IsNash(payoff_matrix_p1, payoff_matrix_p2, nash_i + 1, nash_j + 1)
         THEN Append(equilibria, <<strategies_p1[nash_i + 1], strategies_p2[nash_j + 1]>>)
         ELSE equilibria
    /\ IF nash_j + 1 < Len(strategies_p2)
       THEN nash_j' = nash_j + 1 /\ nash_i' = nash_i
       ELSE nash_j' = 0 /\ nash_i' = nash_i + 1
    /\ UNCHANGED <<pc, payoff_matrix, game, payoff_matrix_p1, payoff_matrix_p2,
                   strategies_p1, strategies_p2, game_result, notGame>>

ReturnEquilibria ==
    /\ pc = "loop" /\ nash_i = Len(strategies_p1)
    /\ game_result' =
         IF game = "prisoners_dilemma"
         THEN [payoff_matrix |-> payoff_matrix, strategies |-> PDStrategies,
               equilibrium |-> equilibria,
               player1_dominant |-> find_dominant_strategy(payoff_matrix, "row"),
               player2_dominant |-> find_dominant_strategy(payoff_matrix, "column"),
               game_type |-> "Prisoners Dilemma"]
         ELSE [equilibrium |-> equilibria]
    /\ pc' = "done"
    /\ UNCHANGED <<payoff_matrix, game, payoff_matrix_p1, payoff_matrix_p2,
                   strategies_p1, strategies_p2, nash_i, nash_j, equilibria, notGame>>

GameNext == PrisonersDilemma \/ FindNashEquilibria \/ CheckCell \/ ReturnEquilibria
SpecGame == GameInit /\ [][GameNext]_vars

\* [[CC, CD], [DC, DD]] with temptation > reward > punishment > sucker's payoff:
\* defecting is strictly better whatever the other player does.
IsPrisonersDilemma(m) ==
    /\ m[2][1] > m[1][1] /\ m[1][1] > m[2][2] /\ m[2][2] > m[1][2]

\* C3: prisoners_dilemma on a Prisoner's Dilemma payoff matrix returns exactly
\* one equilibrium, (Defect, Defect).
C3_OnlyMutualDefection ==
    (pc = "done" /\ game = "prisoners_dilemma" /\ IsPrisonersDilemma(payoff_matrix))
        => game_result.equilibrium = << <<"Defect", "Defect">> >>

\* The cells no unilateral deviation strictly improves, by definition.
NashCells ==
    {c \in (1..NStrategies) \X (1..NStrategies) :
        /\ \A k \in 1..NStrategies :
              ~(payoff_matrix_p1[k][c[2]] > payoff_matrix_p1[c[1]][c[2]])
        /\ \A l \in 1..NStrategies :
              ~(payoff_matrix_p2[c[1]][l] > payoff_matrix_p2[c[1]][c[2]])}
Returned == {game_result.equilibrium[k] : k \in 1..Len(game_result.equilibrium)}

\* C4: find_nash_equilibria returns exactly the cells (i, j) where no row k has
\* payoff_matrix_p1[k][j] > payoff_matrix_p1[i][j] and no column l has
\* payoff_matrix_p2[i][l] > payoff_matrix_p2[i][j]: every such cell, each once,
\* and no other (ties never exclude a cell).
C4_ExactlyNashCells ==
    pc = "done" =>
        /\ Returned = {<<strategies_p1[c[1]], strategies_p2[c[2]]>> : c \in NashCells}
        /\ Len(game_result.equilibrium) = Cardinality(NashCells)
\* A game with ties in which several cells, but not all, are returned.
C4_Witness ==
    /\ pc = "done" /\ game = "find_nash_equilibria"
    /\ Len(game_result.equilibrium) = 2
    /\ payoff_matrix_p1[1][1] = payoff_matrix_p1[2][1]
    /\ <<"Enter", "Enter">> \in Returned
    /\ <<"Stay Out", "Enter">> \in Returned

(***************************************************************************)
(* GameTheory.repeated_game_simulation                                     *)
(***************************************************************************)
MaxRounds == 4
Cooperate == 0
Defect == 1
StrategyNames == {"tit_for_tat", "always_cooperate", "always_defect"}

RepeatedInit ==
    /\ pc = "call"
    /\ payoff_matrix \in Matrices(MaxPayoff)
    /\ n_rounds \in 1..MaxRounds
    /\ strategy_p1 \in StrategyNames
    /\ strategy_p2 \in StrategyNames
    /\ round_num = 0 /\ action_p1 = 0 /\ action_p2 = 0
    /\ history_p1 = <<>> /\ history_p2 = <<>>
    /\ payoffs_p1 = <<>> /\ payoffs_p2 = <<>> /\ repeated_result = NoResult
    /\ AuctionIdle /\ NashIdle /\ MarketIdle /\ BertrandIdle /\ AdoptionIdle
    /\ PlatformIdle
    /\ VerticalIdle

notRepeated == <<auctionVars, nashVars, marketVars, bertrandVars, adoptionVars, platformVars, verticalVars>>

\* The first-round actions, chosen before the loop.
FirstActionP1(s1) == IF s1 = "tit_for_tat" THEN Cooperate ELSE Defect
FirstActionP2(s2) == IF s2 = "always_cooperate" THEN Cooperate ELSE Defect

RepeatedGameSimulation ==
    /\ pc = "call"
    /\ action_p1' = FirstActionP1(strategy_p1)
    /\ action_p2' = FirstActionP2(strategy_p2)
    /\ pc' = "loop"
    /\ UNCHANGED <<payoff_matrix, n_rounds, strategy_p1, strategy_p2, round_num,
                   history_p1, history_p2, payoffs_p1, payoffs_p2, repeated_result,
                   notRepeated>>

\* Player 1's next action, from the actions just played.
NextActionP1(s1, cur_p2) ==
    IF s1 = "tit_for_tat" THEN cur_p2
    ELSE IF s1 = "always_cooperate" THEN Cooperate
    ELSE Defect
\* Player 2's next action is computed after action_p1 has been reassigned:
\* it reads player 1's next action, not the one just played.
NextActionP2(s2, new_p1) ==
    IF s2 = "tit_for_tat" THEN new_p1
    ELSE IF s2 = "always_cooperate" THEN Cooperate
    ELSE Defect

\* One pass of "for round_num in range(n_rounds)".
PlayRound ==
    /\ pc = "loop" /\ round_num < n_rounds
    /\ history_p1' = Append(history_p1, action_p1)
    /\ history_p2' = Append(history_p2, action_p2)
    /\ payoffs_p1' = Append(payoffs_p1, payoff_matrix[action_p1 + 1][action_p2 + 1])
    /\ payoffs_p2' = Append(payoffs_p2, payoff_matrix[action_p2 + 1][action_p1 + 1])
    /\ IF round_num < n_rounds - 1
       THEN /\ action_p1' = NextActionP1(strategy_p1, action_p2)
            /\ action_p2' = NextActionP2(strategy_p2, action_p1')
       ELSE UNCHANGED <<action_p1, action_p2>>
    /\ round_num' = round_num + 1
    /\ UNCHANGED <<pc, payoff_matrix, n_rounds, strategy_p1, strategy_p2,
                   repeated_result, notRepeated>>

RECURSIVE SumSeq(_)
SumSeq(s) == IF s = <<>> THEN 0 ELSE Head(s) + SumSeq(Tail(s))
Count(s, x) == Cardinality({k \in 1..Len(s) : s[k] = x})

ReturnRepeated ==
    /\ pc = "loop" /\ round_num = n_rounds
    /\ repeated_result' =
         [history_p1 |-> history_p1, history_p2 |-> history_p2,
          payoffs_p1 |-> payoffs_p1, payoffs_p2 |-> payoffs_p2,
          total_payoff_p1 |-> SumSeq(payoffs_p1),
          total_payoff_p2 |-> SumSeq(payoffs_p2),
          cooperation_rate_p1 |-> Rat(Count(history_p1, Cooperate), Len(history_p1)),
          cooperation_rate_p2 |-> Rat(Count(history_p2, Cooperate), Len(history_p2))]
    /\ pc' = "done"
    /\ UNCHANGED <<payoff_matrix, n_rounds, strategy_p1, strategy_p2, round_num,
                   action_p1, action_p2, history_p1, history_p2, payoffs_p1,
                   payoffs_p2, notRepeated>>

RepeatedNext == RepeatedGameSimulation \/ PlayRound \/ ReturnRepeated
SpecRepeated == RepeatedInit /\ [][RepeatedNext]_vars

\* C9: a player whose strategy is 'tit_for_tat' plays in every round t >= 1 the
\* action the opponent played in round t-1.
C9_TitForTatCopies ==
    \A k \in 2..Len(history_p1) :
        /\ strategy_p1 = "tit_for_tat" => history_p1[k] = history_p2[k - 1]
        /\ strategy_p2 = "tit_for_tat" => history_p2[k] = history_p1[k - 1]

\* C10: a player whose strategy is 'always_cooperate' plays Cooperate (0) in
\* every round including the first, and one whose strategy is 'always_defect'
\* plays Defect (1) in every round, whatever the opponent's strategy.
C10_ConstantStrategies ==
    \A k \in 1..Len(history_p1) :
        /\ strategy_p1 = "always_cooperate" => history_p1[k] = Cooperate
        /\ strategy_p2 = "always_cooperate" => history_p2[k] = Cooperate
        /\ strategy_p1 = "always_defect" => history_p1[k] = Defect
        /\ strategy_p2 = "always_defect" => history_p2[k] = Defect

(***************************************************************************)
(* MarketStructures: perfect_competition, monopoly, cournot_oligopoly and  *)
(* monopolistic_competition, called once each and in that order by         *)
(* compare_market_structures(a, b, mc, n_firms).                           *)
(* Demand P = a - bQ with constant marginal cost mc.  a and mc are         *)
(* integers, b is a positive fraction, n_firms a positive integer.         *)
(***************************************************************************)
MaxA == 4
MaxB == 2
MaxFirms == 20

SlopeValues == {Rat(num, den) : num \in 1..MaxB, den \in 1..MaxB}

perfect_competition(pa, pb, pmc) ==
    LET q_eq == RDiv(R(pa - pmc), pb)
        p_eq == R(pmc)
        consumer_surplus == RMul(RMul(RHalf, q_eq), RSub(R(pa), p_eq))
        producer_surplus == R(0)
    IN  [price |-> p_eq, quantity |-> q_eq,
         consumer_surplus |-> consumer_surplus,
         producer_surplus |-> producer_surplus,
         total_surplus |-> RAdd(consumer_surplus, producer_surplus),
         market_type |-> "Perfect Competition"]

\* MR = MC: a - 2bQ = mc
MonopolyQuantityAsCompetitive(pa, pb, pmc) == RDiv(R(pa - pmc), pb)
MonopolyQuantity(pa, pb, pmc) == RDiv(R(pa - pmc), RMul(R(2), pb))

monopoly(pa, pb, pmc) ==
    LET q_eq == MonopolyQuantity(pa, pb, pmc)
        p_eq == RSub(R(pa), RMul(pb, q_eq))
        consumer_surplus == RMul(RMul(RHalf, q_eq), RSub(R(pa), p_eq))
        producer_surplus == RMul(RSub(p_eq, R(pmc)), q_eq)
        q_competitive == RDiv(R(pa - pmc), pb)
        gap == RSub(q_competitive, q_eq)
        deadweight_loss == RMul(RMul(RHalf, pb), RMul(gap, gap))
    IN  [price |-> p_eq, quantity |-> q_eq,
         consumer_surplus |-> consumer_surplus,
         producer_surplus |-> producer_surplus,
         total_surplus |-> RAdd(consumer_surplus, producer_surplus),
         deadweight_loss |-> deadweight_loss,
         market_type |-> "Monopoly"]

\* qi = (a - mc) / (b(n+1))
QuantityPerFirmOverN(pa, pb, pmc, n) == RDiv(R(pa - pmc), RMul(pb, R(n)))
QuantityPerFirm(pa, pb, pmc, n) == RDiv(R(pa - pmc), RMul(pb, R(n + 1)))

cournot_oligopoly(pa, pb, pmc, n) ==
    LET q_per_firm == QuantityPerFirm(pa, pb, pmc, n)
        q_total == RMul(R(n), q_per_firm)
        p_eq == RSub(R(pa), RMul(pb, q_total))
        profit_per_firm == RMul(RSub(p_eq, R(pmc)), q_per_firm)
        total_producer_surplus == RMul(R(n), profit_per_firm)
        consumer_surplus == RMul(RMul(RHalf, q_total), RSub(R(pa), p_eq))
    IN  [price |-> p_eq, quantity |-> q_total,
         quantity_per_firm |-> q_per_firm,
         profit_per_firm |-> profit_per_firm,
         consumer_surplus |-> consumer_surplus,
         producer_surplus |-> total_producer_surplus,
         total_surplus |-> RAdd(consumer_surplus, total_producer_surplus),
         n_firms |-> n,
         market_type |-> "Cournot Oligopoly (" \o ToString(n) \o " firms)"]

\* markup = 0.2
Markup == Rat(1, 5)

monopolistic_competition(pa, pb, pmc) ==
    LET p_eq == RMul(R(pmc), RAdd(R(1), Markup))
        q_eq == RDiv(RSub(R(pa), p_eq), pb)
        consumer_surplus == RMul(RMul(RHalf, q_eq), RSub(R(pa), p_eq))
        producer_surplus == RMul(Rat(1, 10), q_eq)
    IN  [price |-> p_eq, quantity |-> q_eq,
         consumer_surplus |-> consumer_surplus,
         producer_surplus |-> producer_surplus,
         total_surplus |-> RAdd(consumer_surplus, producer_surplus),
         markup |-> Markup,
         market_type |-> "Monopolistic Competition"]

\* The arguments of compare_market_structures; pc names the call it makes next.
MarketInit ==
    /\ pc = "perfect_competition"
    /\ a \in 1..MaxA
    /\ b \in SlopeValues
    /\ mc \in 0..MaxA
    /\ n_firms \in 1..MaxFirms
    /\ competition_result = NoResult /\ monopoly_result = NoResult
    /\ cournot_result = NoResult /\ monopolistic_result = NoResult
    /\ payoff_matrix = <<>>
    /\ AuctionIdle /\ NashIdle /\ RepeatedIdle /\ BertrandIdle /\ AdoptionIdle
    /\ PlatformIdle
    /\ VerticalIdle

notMarket == <<payoff_matrix, auctionVars, nashVars, repeatedVars, bertrandVars,
               adoptionVars, platformVars, verticalVars>>

\* pc = self.perfect_competition(a, b, mc)
PerfectCompetition ==
    /\ pc = "perfect_competition"
    /\ competition_result' = perfect_competition(a, b, mc)
    /\ pc' = "monopoly"
    /\ UNCHANGED <<a, b, mc, n_firms, monopoly_result, cournot_result,
                   monopolistic_result, notMarket>>

\* monopoly = self.monopoly(a, b, mc)
Monopoly ==
    /\ pc = "monopoly"
    /\ monopoly_result' = monopoly(a, b, mc)
    /\ pc' = "cournot_oligopoly"
    /\ UNCHANGED <<a, b, mc, n_firms, competition_result, cournot_result,
                   monopolistic_result, notMarket>>

\* oligopoly = self.cournot_oligopoly(a, b, mc, n_firms)
CournotOligopoly ==
    /\ pc = "cournot_oligopoly"
    /\ cournot_result' = cournot_oligopoly(a, b, mc, n_firms)
    /\ pc' = "monopolistic_competition"
    /\ UNCHANGED <<a, b, mc, n_firms, competition_result, monopoly_result,
                   monopolistic_result, notMarket>>

\* mono_comp = self.monopolistic_competition(a, b, mc); the comparison is
\* returned with the four records.
MonopolisticCompetition ==
    /\ pc = "monopolistic_competition"
    /\ monopolistic_result' = monopolistic_competition(a, b, mc)
    /\ pc' = "done"
    /\ UNCHANGED <<a, b, mc, n_firms, competition_result, monopoly_result,
                   cournot_result, notMarket>>

MarketNext == PerfectCompetition \/ Monopoly \/ CournotOligopoly \/ MonopolisticCompetition
SpecMarket == MarketInit /\ [][MarketNext]_vars

Returned3(r) == r # NoResult

\* C5: for a > mc > 0 and b > 0 the monopoly quantity is exactly half the
\* perfect-competition quantity, and the monopoly deadweight loss is > 0.
C5_MonopolyHalvesQuantity ==
    (Returned3(monopoly_result) /\ Returned3(competition_result) /\ a > mc /\ mc > 0) =>
        /\ RMul(R(2), monopoly_result.quantity) = competition_result.quantity
        /\ RLt(R(0), monopoly_result.deadweight_loss)
\* Both structures evaluated on a fractional slope, with a fractional outcome.
C5_Witness ==
    /\ Returned3(monopoly_result) /\ Returned3(competition_result)
    /\ a > mc /\ mc > 0 /\ b # R(1)
    /\ monopoly_result.quantity.d > 1

\* The distance of the Cournot outcome from the competitive one.
QuantityGap(r) == RSub(competition_result.quantity, r.quantity)
PriceGap(r) == RSub(r.price, R(mc))
MinR(x, y) == IF RLe(x, y) THEN x ELSE y
MaxTolDen == 2
\* n_firms is large enough for tolerance 1/k: (n+1) * min(b, 1) > k * (a - mc)
LargeEnough(n, k) == RLt(R(k * (a - mc)), RMul(R(n + 1), MinR(b, R(1))))

C6_GapsPositiveAndSmall ==
    (Returned3(cournot_result) /\ Returned3(competition_result) /\ a > mc) =>
        /\ RLt(R(0), QuantityGap(cournot_result))
        /\ RLt(R(0), PriceGap(cournot_result))
        /\ \A k \in 1..MaxTolDen :
              LargeEnough(n_firms, k) =>
                  /\ RLt(QuantityGap(cournot_result), Rat(1, k))
                  /\ RLt(PriceGap(cournot_result), Rat(1, k))
\* The same market with one more firm.
OneMoreFirm == cournot_oligopoly(a, b, mc, n_firms + 1)
C6_GapsShrink ==
    (Returned3(cournot_result) /\ Returned3(competition_result) /\ a > mc) =>
        /\ RLt(QuantityGap(OneMoreFirm), QuantityGap(cournot_result))
        /\ RLt(PriceGap(OneMoreFirm), PriceGap(cournot_result))

\* C6: for fixed a > mc and b > 0 the gaps (q_competitive - q_total) and
\* (price - mc) of cournot_oligopoly are positive, strictly decrease with every
\* added firm, and are below the tolerance 1/k once n_firms is large enough.
C6_CournotConverges == C6_GapsPositiveAndSmall /\ C6_GapsShrink
\* The smallest n_firms that meets the tightest tolerance, on a fractional slope.
C6_Witness ==
    /\ Returned3(cournot_result) /\ Returned3(competition_result) /\ a > mc
    /\ a - mc > 1 /\ b.d > 1
    /\ LargeEnough(n_firms, MaxTolDen)
    /\ ~LargeEnough(n_firms - 1, MaxTolDen)
    /\ RLt(QuantityGap(cournot_result), Rat(1, MaxTolDen))

\* The quantity a returned result reports is zero when mc >= a and never
\* negative.
ZeroWhenCostly(r) ==
    Returned3(r) =>
        /\ RLe(R(0), r.quantity)
        /\ mc >= a => r.quantity = R(0)

\* C19: when mc >= a (b > 0), perfect_competition, monopoly and
\* cournot_oligopoly report a zero equilibrium quantity, and none of them
\* ever returns a negative quantity.
C19_ZeroQuantityWhenCostly ==
    /\ ZeroWhenCostly(competition_result)
    /\ ZeroWhenCostly(monopoly_result)
    /\ ZeroWhenCostly(cournot_result)

(***************************************************************************)
(* PriceCompetition.bertrand_competition                                   *)
(* q1 = a - b*p1 + gamma*b*p2, q2 = a - b*p2 + gamma*b*p1; a and b are the *)
(* demand parameters, as in MarketStructures.                              *)
(***************************************************************************)
MaxCost == 3
GammaDen == 2

\* gamma is documented as lying in [0, 1]; the call takes any number.  The
\* values run from below 0 to 2, where the denominator vanishes.
GammaValues == {Rat(g, GammaDen) : g \in (-1)..(2 * GammaDen)}


\* denominator = 4 - gamma**2
BertrandDenominator(g) == RSub(R(4), RMul(g, g))

\* p1 = (2*a + 2*b*mc1 + gamma*b*mc2) / (b * denominator)
BertrandPrice1(pmc1, pmc2, pa, pb, g) ==
    RDiv(RAdd(RAdd(R(2 * pa), RMul(R(2 * pmc1), pb)), RMul(RMul(g, pb), R(pmc2))),
         RMul(pb, BertrandDenominator(g)))
\* p2 = (2*a + 2*b*mc2 + gamma*b*mc1) / (b * denominator)
BertrandPrice2DroppedSlope(pmc1, pmc2, pa, pb, g) ==
    RDiv(RAdd(RAdd(R(2 * pa), RMul(R(2 * pmc2), pb)), RMul(g, R(pmc1))),
         RMul(pb, BertrandDenominator(g)))
BertrandPrice2(pmc1, pmc2, pa, pb, g) ==
    RDiv(RAdd(RAdd(R(2 * pa), RMul(R(2 * pmc2), pb)), RMul(RMul(g, pb), R(pmc1))),
         RMul(pb, BertrandDenominator(g)))

\* q = a - b*own + gamma*b*other
BertrandQuantity(pa, pb, g, own, other) ==
    RAdd(RSub(R(pa), RMul(pb, own)), RMul(RMul(g, pb), other))

bertrand_competition(pmc1, pmc2, pa, pb, g) ==
    IF RMul(pb, BertrandDenominator(g)) = R(0) THEN ZeroDivisionError ELSE
    LET p1 == BertrandPrice1(pmc1, pmc2, pa, pb, g)
        p2 == BertrandPrice2(pmc1, pmc2, pa, pb, g)
        q1 == BertrandQuantity(pa, pb, g, p1, p2)
        q2 == BertrandQuantity(pa, pb, g, p2, p1)
        profit1 == RMul(RSub(p1, R(pmc1)), q1)
        profit2 == RMul(RSub(p2, R(pmc2)), q2)
        consumer_surplus ==
            RAdd(RMul(RMul(RHalf, pb), RAdd(RMul(q1, q1), RMul(q2, q2))),
                 RMul(RMul(RMul(g, pb), q1), q2))
    IN  [price1 |-> p1, price2 |-> p2, quantity1 |-> q1, quantity2 |-> q2,
         profit1 |-> profit1, profit2 |-> profit2,
         total_quantity |-> RAdd(q1, q2),
         consumer_surplus |-> consumer_surplus,
         differentiation |-> g, competition_type |-> "Bertrand"]

PriceInit ==
    /\ pc = "call"
    /\ a \in 1..MaxA
    /\ b \in SlopeValues
    /\ mc1 \in 0..MaxCost
    /\ mc2 \in 0..MaxCost
    /\ gamma \in GammaValues
    /\ bertrand_result = NoResult
    /\ mc = 0 /\ n_firms = 0
    /\ competition_result = NoResult /\ monopoly_result = NoResult
    /\ cournot_result = NoResult /\ monopolistic_result = NoResult
    /\ payoff_matrix = <<>>
    /\ AuctionIdle /\ NashIdle /\ RepeatedIdle /\ AdoptionIdle
    /\ PlatformIdle
    /\ VerticalIdle

BertrandCompetition ==
    /\ pc = "call"
    /\ bertrand_result' = bertrand_competition(mc1, mc2, a, b, gamma)
    /\ pc' = "done"
    /\ UNCHANGED <<mc1, mc2, gamma, payoff_matrix, auctionVars, nashVars,
                   repeatedVars, marketVars, adoptionVars, platformVars, verticalVars>>

PriceNext == BertrandCompetition
SpecPrice == PriceInit /\ [][PriceNext]_vars

InUnitInterval(g) == RLe(R(0), g) /\ RLe(g, R(1))

\* C7: with equal marginal costs mc1 = mc2 (a, b > 0, gamma in [0,1]),
\* bertrand_competition returns price1 = price2, quantity1 = quantity2 and
\* profit1 = profit2.
C7_SymmetricOutcome ==
    (pc = "done" /\ mc1 = mc2 /\ InUnitInterval(gamma)) =>
        /\ bertrand_result.price1 = bertrand_result.price2
        /\ bertrand_result.quantity1 = bertrand_result.quantity2
        /\ bertrand_result.profit1 = bertrand_result.profit2
\* Equal positive costs, substitutable goods and a slope other than 1.
C7_Witness ==
    /\ pc = "done" /\ mc1 = mc2 /\ mc1 > 0
    /\ RLt(R(0), gamma) /\ InUnitInterval(gamma) /\ b # R(1)
    /\ bertrand_result.price1 = bertrand_result.price2
    /\ RLt(R(mc1), bertrand_result.price1)

\* The best response to the other firm's price:
\* (a + gamma*b*other + b*own_mc) / (2*b)
BestResponse(own_mc, other) ==
    RDiv(RAdd(RAdd(R(a), RMul(RMul(gamma, b), other)), RMul(b, R(own_mc))),
         RMul(R(2), b))

\* C17: for a, b > 0 and gamma in [0,1] the returned prices solve the
\* first-order conditions: each price is the best response to the other,
\* price1 = (a + gamma*b*price2 + b*mc1) / (2*b) and symmetrically price2.
C17_PricesSolveFOC ==
    (pc = "done" /\ InUnitInterval(gamma)) =>
        /\ bertrand_result.price1 = BestResponse(mc1, bertrand_result.price2)
        /\ bertrand_result.price2 = BestResponse(mc2, bertrand_result.price1)

\* C18: a call with gamma outside [0,1] reports an error instead of
\* returning an equilibrium.
C18_RejectsGammaOutOfRange ==
    (pc = "done" /\ ~InUnitInterval(gamma)) =>
        "error" \in DOMAIN bertrand_result

(***************************************************************************)
(* NetworkEffects.network_adoption_dynamics                                *)
(* The call is modelled for population_size = PopulationSize.  Its floats  *)
(* (current_adopters, the adoption rates, the growth rate) are decimal     *)
(* fixed-point numbers with 18 decimals: the value v is the natural number *)
(* v * 10^18 written as its sequence of base-1000 digits, least            *)
(* significant first and without leading zeros (0 is << >>, 1 is One).     *)
(* Every multiplication and division truncates its result at the 18th      *)
(* decimal, where the code's doubles round at about the 16th significant   *)
(* digit.  The arguments adoption_threshold and network_value are held in  *)
(* hundredths: the variable value 30 stands for 0.30.                      *)
(***************************************************************************)
PopulationSize == 1000000
DefaultTimePeriods == 50
MaxPeriods == 4
MaxNetworkSteps == 3
MaxThresholdSteps == 3
StrongNetworkValue == 2000

\* network_value up to 1.5 in steps of 0.5, and one strong network (20.0)
\* whose growth rate passes 1.
NetworkValues == {50 * k : k \in 0..MaxNetworkSteps} \cup {StrongNetworkValue}
ThresholdValues == {10 * k : k \in (-1)..MaxThresholdSteps}
TimePeriodValues == (0..MaxPeriods) \cup {DefaultTimePeriods}

\* 1.0: six base-1000 digits of fraction below the units digit
One == <<0, 0, 0, 0, 0, 0, 1>>
Decimals == Len(One) - 1

\* The operations below bind their operands (xv, yv) before they walk over
\* the digits, so that an operand is computed once.
Digit(x, i) == IF i <= Len(x) THEN x[i] ELSE 0
\* x without its leading zeros
RECURSIVE StripFrom(_, _)
StripFrom(x, i) ==
    IF i = 0 THEN <<>>
    ELSE IF x[i] = 0 THEN StripFrom(x, i - 1)
    ELSE SubSeq(x, 1, i)
Strip(x) == CHOOSE r \in {StripFrom(xv, Len(xv)) : xv \in {x}} : TRUE

\* x + y
RECURSIVE AddFrom(_, _, _, _)
AddFrom(x, y, i, carry) ==
    IF i > Len(x) /\ i > Len(y)
    THEN IF carry = 0 THEN <<>> ELSE <<carry>>
    ELSE LET v == Digit(x, i) + Digit(y, i) + carry
         IN  <<v % 1000>> \o AddFrom(x, y, i + 1, v \div 1000)
FAdd(x, y) == CHOOSE r \in {AddFrom(xv, yv, 1, 0) : xv \in {x}, yv \in {y}} : TRUE

\* x - y, for x >= y
RECURSIVE SubFrom(_, _, _, _)
SubFrom(x, y, i, borrow) ==
    IF i > Len(x) THEN <<>>
    ELSE LET v == x[i] - Digit(y, i) - borrow
         IN  IF v < 0 THEN <<v + 1000>> \o SubFrom(x, y, i + 1, 1)
             ELSE <<v>> \o SubFrom(x, y, i + 1, 0)
FSub(x, y) == CHOOSE r \in {Strip(SubFrom(xv, yv, 1, 0)) : xv \in {x}, yv \in {y}} : TRUE

\* x * k for a natural number k
RECURSIVE TimesFrom(_, _, _, _)
TimesFrom(x, k, i, carry) ==
    IF i > Len(x) /\ carry = 0 THEN <<>>
    ELSE LET v == Digit(x, i) * k + carry
         IN  <<v % 1000>> \o TimesFrom(x, k, i + 1, v \div 1000)
Times(x, k) == CHOOSE r \in {Strip(TimesFrom(xv, k, 1, 0)) : xv \in {x}} : TRUE

\* x / k for a positive natural number k, truncated
RECURSIVE OverFrom(_, _, _, _)
OverFrom(x, k, i, r) ==
    IF i = 0 THEN <<>>
    ELSE LET v == r * 1000 + x[i]
         IN  OverFrom(x, k, i - 1, v % k) \o <<v \div k>>
Over(x, k) == CHOOSE r \in {Strip(OverFrom(xv, k, Len(xv), 0)) : xv \in {x}} : TRUE

\* x * y, truncated
RECURSIVE ProductFrom(_, _, _)
ProductFrom(x, y, j) ==
    IF j > Len(y) THEN <<>>
    ELSE FAdd(TimesFrom(x, y[j], 1, 0), <<0>> \o ProductFrom(x, y, j + 1))
Truncate(x) == IF Len(x) <= Decimals THEN <<>> ELSE SubSeq(x, Decimals + 1, Len(x))
FMul(x, y) ==
    CHOOSE r \in {Truncate(pv) : pv \in {Strip(ProductFrom(xv, yv, 1)) : xv \in {x}, yv \in {y}}} :
        TRUE

\* x <= y and x < y
RECURSIVE LeFrom(_, _, _)
LeFrom(x, y, i) ==
    IF i = 0 THEN TRUE
    ELSE IF x[i] # y[i] THEN x[i] < y[i]
    ELSE LeFrom(x, y, i - 1)
FLe(x, y) ==
    \E xv \in {x}, yv \in {y} :
        Len(xv) < Len(yv) \/ (Len(xv) = Len(yv) /\ LeFrom(xv, yv, Len(xv)))
FLt(x, y) == ~FLe(y, x)

\* The float num / den, as in the literals 0.01, 0.02, 0.1, 0.5 and 0.99
Decimal(num, den) == Over(Times(One, num), den)
\* An argument given in hundredths (not negative)
Hundredths(v) == Decimal(v, 100)
Population == Times(One, PopulationSize)
\* 0.01, 0.02, 0.1, 0.5, 0.99
EarlyShare == Decimal(1, 100)
SlowGrowthRate == Decimal(2, 100)
GrowthFactor == Decimal(1, 10)
CriticalMass == Decimal(1, 2)
FullShare == Decimal(99, 100)

\* population_size * 0.01
EarlyAdopters == FMul(Population, EarlyShare)
\* population_size * 0.99
FullAdoptionNever == Times(Population, 2)
FullAdoption == FMul(Population, FullShare)

\* adoption_rate = current_adopters / population_size
AdoptionRate(cur) == Over(cur, PopulationSize)
\* network_utility = network_value * adoption_rate
NetworkUtility(nv, cur) == FMul(Hundredths(nv), AdoptionRate(cur))

\* network_utility > adoption_threshold; network_utility is never negative
AboveThreshold(nv, thr, cur) ==
    thr < 0 \/ FLt(Hundredths(thr), NetworkUtility(nv, cur))

MinOfSecond(x, y) == y
MinOf(x, y) ==
    CHOOSE r \in {IF FLe(xv, yv) THEN xv ELSE yv : xv \in {x}, yv \in {y}} : TRUE

\* growth_rate = 0.1 * (network_utility - adoption_threshold), above the
\* threshold
GrowthRate(nv, thr, cur) ==
    FMul(GrowthFactor,
         IF thr < 0 THEN FAdd(NetworkUtility(nv, cur), Hundredths(-thr))
         ELSE FSub(NetworkUtility(nv, cur), Hundredths(thr)))

\* new_adopters = min(remaining, growth_rate * remaining)
AcceleratedAdopters(nv, thr, cur) ==
    CHOOSE r \in {MinOf(remaining, FMul(GrowthRate(nv, thr, cur), remaining)) :
                     remaining \in {FSub(Population, cur)}} : TRUE

\* growth_rate = 0.02; new_adopters = growth_rate * remaining
SlowAdopters(cur) == FMul(SlowGrowthRate, FSub(Population, cur))

NewAdopters(nv, thr, cur) ==
    IF AboveThreshold(nv, thr, cur)
    THEN AcceleratedAdopters(nv, thr, cur)
    ELSE SlowAdopters(cur)

AdoptionInit ==
    /\ pc = "call"
    /\ adoption_threshold \in ThresholdValues
    /\ network_value \in NetworkValues
    /\ time_periods \in TimePeriodValues
    /\ t = 0 /\ current_adopters = <<>> /\ adoption_history = <<>>
    /\ adoption_result = NoResult
    /\ payoff_matrix = <<>>
    /\ AuctionIdle /\ NashIdle /\ RepeatedIdle /\ MarketIdle /\ BertrandIdle
    /\ PlatformIdle
    /\ VerticalIdle

notAdoption == <<payoff_matrix, auctionVars, nashVars, repeatedVars, marketVars,
                 bertrandVars, platformVars, verticalVars>>

NetworkAdoptionDynamics ==
    /\ pc = "call"
    /\ adoption_history' = <<>>
    /\ current_adopters' = EarlyAdopters
    /\ t' = 0
    /\ pc' = "loop"
    /\ UNCHANGED <<adoption_threshold, network_value, time_periods, adoption_result,
                   notAdoption>>

\* One pass of "for t in range(time_periods)"; pc = "break" once the 99% test
\* has left the loop.
AdoptionStep ==
    /\ pc = "loop" /\ t < time_periods
    /\ adoption_history' = Append(adoption_history, AdoptionRate(current_adopters))
    /\ current_adopters' =
         FAdd(current_adopters,
              NewAdopters(network_value, adoption_threshold, current_adopters))
    /\ IF FLe(FullAdoption, current_adopters')
       THEN pc' = "break" /\ t' = t
       ELSE pc' = "loop" /\ t' = t + 1
    /\ UNCHANGED <<adoption_threshold, network_value, time_periods, adoption_result,
                   notAdoption>>

\* for i, rate in enumerate(adoption_history): if rate >= 0.5: break
RECURSIVE CriticalMassTime(_, _, _)
CriticalMassTimeNever(history, i, not_reached) == not_reached
CriticalMassTime(history, i, not_reached) ==
    IF i > Len(history) THEN not_reached
    ELSE IF FLe(CriticalMass, history[i]) THEN i - 1
    ELSE CriticalMassTime(history, i + 1, not_reached)

ReturnAdoption ==
    /\ \/ pc = "loop" /\ t = time_periods
       \/ pc = "break"
    /\ adoption_result' =
         [adoption_history |-> adoption_history,
          time_periods |-> [k \in 1..Len(adoption_history) |-> k - 1],
          final_adoption |-> AdoptionRate(current_adopters),
          critical_mass_time |-> CriticalMassTime(adoption_history, 1, time_periods),
          population_size |-> PopulationSize,
          model_type |-> "Network Adoption"]
    /\ pc' = "done"
    /\ UNCHANGED <<adoption_threshold, network_value, time_periods, t,
                   current_adopters, adoption_history, notAdoption>>

AdoptionNext == NetworkAdoptionDynamics \/ AdoptionStep \/ ReturnAdoption
SpecAdoption == AdoptionInit /\ [][AdoptionNext]_vars
\* A call that has started runs on: nothing suspends or cancels it.
SpecAdoptionFair == SpecAdoption /\ WF_vars(AdoptionNext)

\* C8: with network_value = 0 and adoption_threshold >= 0 the run never
\* reaches critical mass: every recorded adoption rate is below 0.5 and
\* critical_mass_time is the 'not reached' value time_periods.
C8_NoCriticalMass ==
    (pc = "done" /\ network_value = 0 /\ adoption_threshold >= 0) =>
        /\ \A k \in 1..Len(adoption_result.adoption_history) :
              FLt(adoption_result.adoption_history[k], Decimal(1, 2))
        /\ adoption_result.critical_mass_time = time_periods

\* Twice the rate is at least 1.
AtLeastHalf(rate) == FLe(One, Times(rate, 2))
\* Positions of the recorded periods whose rate is at least one half.
CriticalPeriods(h) == {k \in 1..Len(h) : AtLeastHalf(h[k])}

C21_AtMostTimePeriodsSamples == Len(adoption_history) <= time_periods
\* A period that ends with 99% of the population adopting leaves the loop.
C21_StopsAtFullAdoption ==
    (pc = "loop" /\ FLe(Times(Population, 99), Times(current_adopters', 100)))
        => pc' = "break"
\* Outside the loop no sample is recorded.
C21_NoSampleAfterStop ==
    (pc \in {"break", "done"}) => adoption_history' = adoption_history

\* C21: network_adoption_dynamics always returns; it records at most
\* time_periods samples, and the first period that ends with at least 99% of
\* the population adopting is the last one recorded.
C21_AdoptionTerminates ==
    /\ [](C21_AtMostTimePeriodsSamples)
    /\ [][C21_StopsAtFullAdoption]_vars
    /\ [][C21_NoSampleAfterStop]_vars
    /\ <>(pc = "done")
\* A run cut short by the 99% test, after several periods.
C21_Witness ==
    /\ pc = "done"
    /\ Len(adoption_history) >= 2
    /\ Len(adoption_history) < time_periods
    /\ FLe(Times(Population, 99), Times(current_adopters, 100))

\* C22: critical_mass_time is the index (from 0) of the first recorded
\* period whose rate is at least 0.5, and it is time_periods exactly when no
\* recorded period has such a rate.
C22_CriticalMassIsFirstCrossing ==
    pc = "done" =>
        LET h == adoption_result.adoption_history
            c == adoption_result.critical_mass_time
        IN  /\ CriticalPeriods(h) # {} =>
                 /\ c + 1 \in CriticalPeriods(h)
                 /\ \A k \in CriticalPeriods(h) : c + 1 <= k
            /\ (c = time_periods) <=> (CriticalPeriods(h) = {})
\* Critical mass reached in a period after the first and before the last
\* recorded one.
C22_Witness ==
    /\ pc = "done"
    /\ adoption_result.critical_mass_time > 0
    /\ adoption_result.critical_mass_time + 1 < Len(adoption_result.adoption_history)
    /\ adoption_result.critical_mass_time < time_periods

\* C29: a returned final_adoption of at least 0.5 comes with a
\* critical_mass_time below time_periods.
C29_CriticalMassReported ==
    (pc = "done" /\ AtLeastHalf(adoption_result.final_adoption)) =>
        adoption_result.critical_mass_time < time_periods

C30_WithinPopulation == FLe(current_adopters, Population)
C30_NeverDecreases == FLe(current_adopters, current_adopters')
C30_RatesNonDecreasing ==
    pc = "done" =>
        LET h == adoption_result.adoption_history
            final == adoption_result.final_adoption
        IN  /\ Len(h) > 0 => Times(h[1], 100) = One
            /\ \A k \in 1..Len(h) : FLe(One, Times(h[k], 100)) /\ FLe(h[k], One)
            /\ \A k \in 1..(Len(h) - 1) : FLe(h[k], h[k + 1])
            /\ FLe(final, One)

\* C30: in both growth regimes the number of adopters never decreases and
\* never exceeds population_size; the recorded rates start at 0.01, never
\* decrease and stay within [0.01, 1], and final_adoption is at most 1.
C30_AdoptersMonotoneAndBounded ==
    /\ [](C30_WithinPopulation)
    /\ [][C30_NeverDecreases]_vars
    /\ [](C30_RatesNonDecreasing)
\* A run in which the accelerated regime's cap min(remaining, .) applied:
\* the whole population adopted.
C30_Witness ==
    /\ pc = "done"
    /\ Len(adoption_result.adoption_history) >= 3
    /\ adoption_result.final_adoption = One
    /\ adoption_threshold >= 0

(***************************************************************************)
(* NetworkEffects.platform_competition                                     *)
(* network_strength is a fraction; the qualities and total_users are whole *)
(* numbers.                                                                *)
(***************************************************************************)
MaxStrength == 3
StrengthDen == 2
MaxQuality == 3
MaxUsers == 3

StrengthValues == {Rat(k, StrengthDen) : k \in (-1)..MaxStrength}

\* (network_strength * total_users + platform2_quality - platform1_quality)
\*     / (2 * network_strength * total_users)
IndifferentShare(ns, q1, q2, users) ==
    RDiv(RAdd(RMul(ns, R(users)), R(q2 - q1)), RMul(RMul(R(2), ns), R(users)))

\* No network effects: pure quality competition.
QualityShare(q1, q2) ==
    IF q1 > q2 THEN R(1) ELSE IF q2 > q1 THEN R(0) ELSE RHalf

\* max(0, min(1, market_share1))
Clamp(x) ==
    LET capped == IF RLt(x, R(1)) THEN x ELSE R(1)
    IN  IF RLt(R(0), capped) THEN capped ELSE R(0)

platform_competition(ns, q1, q2, users) ==
    IF RLt(R(0), ns) /\ RMul(RMul(R(2), ns), R(users)) = R(0)
    THEN ZeroDivisionError
    ELSE
    LET market_share1 ==
            Clamp(IF RLt(R(0), ns) THEN IndifferentShare(ns, q1, q2, users)
                  ELSE QualityShare(q1, q2))
        market_share2 == RSub(R(1), market_share1)
        users1 == RMul(market_share1, R(users))
        users2 == RMul(market_share2, R(users))
        network_value1 == RMul(ns, users1)
        network_value2 == RMul(ns, users2)
    IN  [market_share1 |-> market_share1, market_share2 |-> market_share2,
         users1 |-> users1, users2 |-> users2,
         network_value1 |-> network_value1, network_value2 |-> network_value2,
         utility1 |-> RAdd(R(q1), network_value1),
         utility2 |-> RAdd(R(q2), network_value2),
         total_users |-> users, model_type |-> "Platform Competition"]

PlatformInit ==
    /\ pc = "call"
    /\ network_strength \in StrengthValues
    /\ platform1_quality \in 0..MaxQuality
    /\ platform2_quality \in 0..MaxQuality
    /\ total_users \in 0..MaxUsers
    /\ platform_result = NoResult
    /\ payoff_matrix = <<>>
    /\ AuctionIdle /\ NashIdle /\ RepeatedIdle /\ MarketIdle /\ BertrandIdle
    /\ AdoptionIdle /\ VerticalIdle

PlatformCompetition ==
    /\ pc = "call"
    /\ platform_result' = platform_competition(network_strength, platform1_quality,
                                               platform2_quality, total_users)
    /\ pc' = "done"
    /\ UNCHANGED <<network_strength, platform1_quality, platform2_quality, total_users,
                   payoff_matrix, auctionVars, nashVars, repeatedVars, marketVars,
                   bertrandVars, adoptionVars, verticalVars>>

PlatformNext == PlatformCompetition
SpecPlatform == PlatformInit /\ [][PlatformNext]_vars

PlatformReturned == pc = "done" /\ "market_share1" \in DOMAIN platform_result

\* C20: for all inputs platform_competition returns market_share1 and
\* market_share2 in [0,1] with sum 1; with network_strength = 0,
\* market_share1 is 1 if platform 1 has the higher quality, 0 if platform 2
\* has, and 1/2 if the qualities are equal.
C20_SharesPartitionMarket ==
    pc = "done" =>
        /\ ~Failed(platform_result)
        /\ LET s1 == platform_result.market_share1
               s2 == platform_result.market_share2
           IN  /\ 0 <= s1.n /\ s1.n <= s1.d
               /\ 0 <= s2.n /\ s2.n <= s2.d
               /\ s1.n * s2.d + s2.n * s1.d = s1.d * s2.d
               /\ network_strength = R(0) =>
                     /\ platform1_quality > platform2_quality => s1 = R(1)
                     /\ platform2_quality > platform1_quality => s1 = R(0)
                     /\ platform1_quality = platform2_quality => s1 = Rat(1, 2)

\* C28: with network_strength >= 0 and total_users > 0, the platform of
\* strictly higher quality never has the strictly smaller market share.
C28_BetterPlatformNotSmaller ==
    (/\ PlatformReturned
     /\ RLe(R(0), network_strength)
     /\ total_users > 0)
        => /\ platform1_quality > platform2_quality =>
                RLe(platform_result.market_share2, platform_result.market_share1)
           /\ platform2_quality > platform1_quality =>
                RLe(platform_result.market_share1, platform_result.market_share2)

(***************************************************************************)
(* ProductDifferentiation.vertical_differentiation                         *)
(* Qualities and costs are whole numbers; prices, demands and the marginal *)
(* consumer are fractions.                                                 *)
(***************************************************************************)
MaxTier == 3
MaxUnitCost == 3

\* max(0, x)
NonNegative(x) == IF RLt(R(0), x) THEN x ELSE R(0)

\* price = cost + (2 * own quality - other quality) / 3
TierPrice(cost, own, other) == RAdd(R(cost), Rat(2 * own - other, 3))

\* The branch quality_diff > 0: both firms serve the market.
DifferentiatedTiers(qh, ql, ch, cl) ==
    LET price_high0 == TierPrice(ch, qh, ql)
        price_low0 == TierPrice(cl, ql, qh)
        theta_star == RDiv(RSub(price_high0, price_low0), R(qh - ql))
        demand_high0 == NonNegative(RSub(R(1), theta_star))
        demand_low0 == NonNegative(theta_star)
        \* "Ensure non-negative demands", applied to the demands above
        high_negative == RLt(demand_high0, R(0))
        low_negative == RLt(demand_low0, R(0))
    IN  [price_high |-> IF high_negative THEN R(ch) ELSE price_high0,
         price_low |-> IF low_negative THEN R(cl) ELSE price_low0,
         demand_high |-> IF high_negative THEN R(0) ELSE demand_high0,
         demand_low |-> IF low_negative THEN R(0) ELSE demand_low0,
         theta_star |-> theta_star]

\* The branch of equal (or reversed) qualities: standard Bertrand competition.
SameTier(ch, cl) ==
    [price_high |-> R(MaxOf(ch, cl)), price_low |-> R(MaxOf(ch, cl)),
     demand_high |-> RHalf, demand_low |-> RHalf, theta_star |-> RHalf]

vertical_differentiation(qh, ql, ch, cl) ==
    LET eq == IF qh - ql > 0 THEN DifferentiatedTiers(qh, ql, ch, cl)
              ELSE SameTier(ch, cl)
    IN  [quality_high |-> qh, quality_low |-> ql,
         price_high |-> eq.price_high, price_low |-> eq.price_low,
         demand_high |-> eq.demand_high, demand_low |-> eq.demand_low,
         profit_high |->
             NonNegative(RMul(RSub(eq.price_high, R(ch)), eq.demand_high)),
         profit_low |->
             NonNegative(RMul(RSub(eq.price_low, R(cl)), eq.demand_low)),
         marginal_consumer |-> eq.theta_star,
         quality_premium |-> RSub(eq.price_high, eq.price_low),
         model_type |-> "Vertical Differentiation"]

VerticalInit ==
    /\ pc = "call"
    /\ quality_high \in 0..MaxTier
    /\ quality_low \in 0..MaxTier
    /\ cost_high \in 0..MaxUnitCost
    /\ cost_low \in 0..MaxUnitCost
    /\ vertical_result = NoResult
    /\ payoff_matrix = <<>>
    /\ AuctionIdle /\ NashIdle /\ RepeatedIdle /\ MarketIdle /\ BertrandIdle
    /\ AdoptionIdle /\ PlatformIdle

VerticalDifferentiation ==
    /\ pc = "call"
    /\ vertical_result' =
         vertical_differentiation(quality_high, quality_low, cost_high, cost_low)
    /\ pc' = "done"
    /\ UNCHANGED <<quality_high, quality_low, cost_high, cost_low, payoff_matrix,
                   auctionVars, nashVars, repeatedVars, marketVars, bertrandVars,
                   adoptionVars, platformVars>>

VerticalNext == VerticalDifferentiation
SpecVertical == VerticalInit /\ [][VerticalNext]_vars

TiersDiffer == pc = "done" /\ quality_high > quality_low

\* C23: with quality_high > quality_low, a product whose demand computed
\* from the marginal consumer would be negative (1 - theta_star < 0 for the
\* high tier, theta_star < 0 for the low tier) is reported with demand 0 and
\* with its price set to its own cost.
C23_NegativeDemandExits ==
    TiersDiffer =>
        LET theta_star == vertical_result.marginal_consumer
        IN  /\ RLt(R(1), theta_star) =>
                 /\ vertical_result.demand_high = R(0)
                 /\ vertical_result.price_high = R(cost_high)
            /\ RLt(theta_star, R(0)) =>
                 /\ vertical_result.demand_low = R(0)
                 /\ vertical_result.price_low = R(cost_low)

\* C27: with quality_high > quality_low and non-negative costs, demand_high
\* and demand_low each lie in [0,1] and add up to 1.
C27_DemandsPartitionMarket ==
    (TiersDiffer /\ cost_high >= 0 /\ cost_low >= 0) =>
        LET dh == vertical_result.demand_high
            dl == vertical_result.demand_low
        IN  /\ RLe(R(0), dh) /\ RLe(dh, R(1))
            /\ RLe(R(0), dl) /\ RLe(dl, R(1))
            /\ RAdd(dh, dl) = R(1)

=============================================================================
